---- MODULE Spec2Model ----
(***************************************************************************)
(* Model of the Brave Search Agent (iterations/v3-mcp-support/             *)
(* brave_search_agent): the retry-wrapped agent invocation                 *)
(* (main.run_agent_with_retry), the conversation loop (main.main), the     *)
(* paginated search aggregator (agent_tools.search_with_pagination) and    *)
(* the page-content tool (agent.get_page_content over                      *)
(* agent_tools.fetch_page_content).                                        *)
(*                                                                         *)
(* The agent runtime (pydantic_ai Agent.run) and the HTTP endpoints are    *)
(* external: every answer they can give is an input chosen with \E.        *)
(***************************************************************************)
EXTENDS Integers, Sequences, FiniteSets, TLC

VARIABLES
    \* ---- run_agent_with_retry (main.py 18-54)
    user_input,       \* the line handed to the agent
    max_retries,      \* parameter max_retries
    retries,          \* local counter
    last_error,       \* local last_error (None or a captured fault)
    rpc,              \* position: "idle", "loop", "returned", "raised"
    ret,              \* the returned pair (result, message_history)
    raised,           \* the value raised to the caller
    attempts,         \* log: outcome of every agent runtime invocation of this call
    sleeps,           \* number of asyncio.sleep(1) delays taken in this call
    message_history,  \* contents of the list object shared by main and the call
    \* ---- main conversation loop (main.py 80-104)
    mpc,              \* position: "idle", "input", "call", "done"
    lines_read,       \* number of input lines read
    retry_calls,      \* number of run_agent_with_retry invocations
    turns_ok,         \* log of successful turns: (line, result)
    printed,          \* what the last finished turn printed
    \* ---- search_with_pagination (agent_tools.py 124-208)
    max_results,      \* parameter max_results
    page,             \* loop variable
    all_results,      \* accumulated envelope
    ppc,              \* position: "idle", "loop", "returned"
    pret,             \* the returned envelope
    fetched,          \* log: what fetch_search_results returned, page by page
    \* ---- get_page_content (agent.py 66-90)
    response,         \* what the HTTP GET of the page did
    cpc,              \* position: "idle", "fetch", "tool", "returned"
    content,          \* value returned by fetch_page_content
    tool_ret          \* value returned by get_page_content

retryVars == <<user_input, max_retries, retries, last_error, rpc, ret, raised,
               attempts, sleeps, message_history>>
mainVars == <<mpc, lines_read, retry_calls, turns_ok, printed>>
pagVars == <<max_results, page, all_results, ppc, pret, fetched>>
contentVars == <<response, cpc, content, tool_ret>>
vars == <<retryVars, mainVars, pagVars, contentVars>>

----------------------------------------------------------------------------
(* Bounds *)

MaxRetriesBound == 3    \* largest max_retries explored
MaxTurns == 3           \* input lines read in one session
MaxResultsBound == 21   \* largest max_results explored
MaxBodyLen == 5         \* longest page body explored

----------------------------------------------------------------------------
(* Python values *)

None == "None"

\* Faults the agent runtime can raise (subclasses of Exception).
Faults == {"ModelError", "TimeoutError"}

\* What `raise None` raises: None is not an exception.
RaiseNoneTypeError == "TypeError: exceptions must derive from BaseException"

\* Results the agent runtime can return.
Results == {"answer1", "answer2"}

----------------------------------------------------------------------------
(* Text: a str is a sequence of one-character strings *)

LowerLetters == <<"b", "e", "i", "q", "t", "u", "x", "y">>
UpperLetters == <<"B", "E", "I", "Q", "T", "U", "X", "Y">>

\* str.lower() on one character
LowerChar(c) ==
    IF \E i \in 1..Len(UpperLetters) : UpperLetters[i] = c
    THEN LowerLetters[CHOOSE i \in 1..Len(UpperLetters) : UpperLetters[i] = c]
    ELSE c

LowerIdentity(s) == s

\* str.lower()
Lower(s) == [i \in 1..Len(s) |-> LowerChar(s[i])]

\* the list literal ["exit", "quit", "bye"] of main.py line 87
ExitWords == {<<"e", "x", "i", "t">>, <<"q", "u", "i", "t">>, <<"b", "y", "e">>}

----------------------------------------------------------------------------
(* run_agent_with_retry, main.py 18-54 *)

\* One turn as the agent runtime records it in a message list.
Turn(line, r) == [prompt |-> line, response |-> r]

\* `if message_history is None: message_history = []` (lines 31-32); given is
\* FALSE when the argument is None (the default).
NormaliseHistory(given, h) == IF given THEN h ELSE <<>>

\* Lines 34-35: the locals of the call, its arguments being in place.
RetryStart ==
    /\ rpc = "start"
    /\ retries' = 0
    /\ last_error' = None
    /\ rpc' = "loop"
    /\ UNCHANGED <<user_input, max_retries, ret, raised, attempts, sleeps,
                   message_history>>
    /\ UNCHANGED <<mainVars, pagVars, contentVars>>

AfterSuccessContinue == "loop"

\* Position after `return result, message_history` (line 44).
AfterSuccess == "returned"

\* Lines 37-44: the runtime is awaited and answers with result r. The
\* runtime is handed the list object itself: it may work on a copy
\* (inplace = FALSE) or record the turn in the list it was given.
AttemptOk(r, inplace) ==
    /\ rpc = "loop"
    /\ retries < max_retries
    /\ attempts' = Append(attempts, [ok |-> TRUE, val |-> r])
    /\ message_history' = IF inplace
                           THEN Append(message_history, Turn(user_input, r))
                           ELSE message_history
    /\ ret' = <<r, message_history'>>
    /\ rpc' = AfterSuccess
    /\ UNCHANGED <<user_input, max_retries, retries, last_error, raised, sleeps>>
    /\ UNCHANGED <<mainVars, pagVars, contentVars>>

CapturedErrorFirst(old, e) == IF old = None THEN e ELSE old

\* `last_error = e` (line 46)
CapturedError(old, e) == e

AttemptFailAtLeastOnce(e) ==
    /\ rpc = "loop"
    /\ retries <= max_retries
    /\ attempts' = Append(attempts, [ok |-> FALSE, val |-> e])
    /\ last_error' = CapturedError(last_error, e)
    /\ retries' = retries + 1
    /\ sleeps' = IF retries' < max_retries THEN sleeps + 1 ELSE sleeps
    /\ UNCHANGED <<user_input, max_retries, rpc, ret, raised, message_history>>
    /\ UNCHANGED <<mainVars, pagVars, contentVars>>

\* Lines 45-51: the runtime raises fault e; it is captured, counted, and a
\* one-second delay is taken when another attempt follows.
AttemptFail(e) ==
    /\ rpc = "loop"
    /\ retries < max_retries
    /\ attempts' = Append(attempts, [ok |-> FALSE, val |-> e])
    /\ last_error' = CapturedError(last_error, e)
    /\ retries' = retries + 1
    /\ sleeps' = IF retries' < max_retries THEN sleeps + 1 ELSE sleeps
    /\ UNCHANGED <<user_input, max_retries, rpc, ret, raised, message_history>>
    /\ UNCHANGED <<mainVars, pagVars, contentVars>>

\* Line 54, reached when the loop condition of line 37 is false.
RetryExhausted ==
    /\ rpc = "loop"
    /\ ~(retries < max_retries)
    /\ raised' = IF last_error = None THEN RaiseNoneTypeError ELSE last_error
    /\ rpc' = "raised"
    /\ UNCHANGED <<user_input, max_retries, retries, last_error, ret, attempts,
                   sleeps, message_history>>
    /\ UNCHANGED <<mainVars, pagVars, contentVars>>

RetryStep ==
    \/ RetryStart
    \/ \E r \in Results, inplace \in BOOLEAN : AttemptOk(r, inplace)
    \/ \E e \in Faults : AttemptFail(e)
    \/ RetryExhausted

----------------------------------------------------------------------------
(* fetch_search_results and search_with_pagination, agent_tools.py *)
(* A dict is a function whose domain is its set of keys.             *)

\* results_per_page = 10 (line 149)
results_per_page == 10

\* num_pages = (max_results + results_per_page - 1) // results_per_page
num_pages(m) == (m + results_per_page - 1) \div results_per_page

\* {"error": error_msg, "web": {"results": []}} (lines 73, 78, 82)
ErrorEnvelope(msg) == [error |-> msg, web |-> [results |-> <<>>]]

\* The i-th result item of the answer to page p.
Item(p, i) == <<"item", p, i>>
Items(p, n) == [i \in 1..n |-> Item(p, i)]

\* JSON bodies the search endpoint can send with status 200 for page p.
TopMetas == {[query |-> "brave"], [query |-> "brave api", type |-> "search"]}
WebMetas == {[type |-> "search"], [family_friendly |-> "true", error |-> "partial"]}
ItemCounts == {0, 1, 10, 11}
WebObjects(p) ==
    {wm @@ ("results" :> Items(p, n)) : wm \in WebMetas, n \in ItemCounts}
        \cup {[type |-> "search"]}
Bodies(p) ==
    {tm @@ ("web" :> w) : tm \in TopMetas, w \in WebObjects(p)}
        \cup TopMetas
        \cup {[error |-> <<"rate limited">>, type |-> "ErrorResponse"]}

\* What the HTTP GET of one page can do: a 200 with a JSON body, another
\* status with a text, or a transport fault.
Responses(p) ==
    {[status |-> 200, body |-> b] : b \in Bodies(p)}
        \cup {[status |-> 500, text |-> "Internal Server Error"]}
        \cup {[fault |-> "timed out"]}

\* fetch_search_results, lines 40-82.
fetch_search_results(resp) ==
    IF "fault" \in DOMAIN resp
    THEN ErrorEnvelope(<<"Request error: ", resp.fault>>)
    ELSE IF resp.status = 200
         THEN resp.body
         ELSE ErrorEnvelope(<<"Brave API error: ", resp.status, " - ", resp.text>>)

\* `"web" in page_results and "results" in page_results["web"]` (line 177)
HasWebResults(page_results) ==
    /\ "web" \in DOMAIN page_results
    /\ "results" \in DOMAIN page_results["web"]

\* all_results["web"]["results"].extend(page_results["web"]["results"]) (line 178)
ExtendResults(all, page_results) ==
    [all EXCEPT !["web"] =
        [@ EXCEPT !["results"] = @ \o page_results["web"]["results"]]]

\* Lines 182-184: every top-level key of the page but "web" is copied.
CopyTopMetadata(all, page_results) ==
    LET keys == DOMAIN page_results \ {"web"}
    IN  [k \in DOMAIN all \cup keys |->
            IF k \in keys THEN page_results[k] ELSE all[k]]

\* Lines 187-189: every key of the page's web object but "results" is copied.
CopyWebMetadata(all, page_results) ==
    LET keys == DOMAIN page_results["web"] \ {"results"}
        web == [k \in DOMAIN all["web"] \cup keys |->
                   IF k \in keys THEN page_results["web"][k] ELSE all["web"][k]]
    IN  [all EXCEPT !["web"] = web]

\* Lines 177-189: the page is merged into the accumulated envelope.
MergePage(all, p, page_results) ==
    IF HasWebResults(page_results)
    THEN LET extended == ExtendResults(all, page_results)
         IN  IF p = 0
             THEN CopyWebMetadata(CopyTopMetadata(extended, page_results),
                                  page_results)
             ELSE extended
    ELSE all

\* `len(all_results["web"]["results"]) >= max_results` (line 192)
EnoughResults(all, m) == Len(all["web"]["results"]) >= m

TruncateSkipped(all, m) == all

\* all_results["web"]["results"][:max_results] (line 193), max_results > 0
Truncate(all, m) ==
    [all EXCEPT !["web"] =
        [@ EXCEPT !["results"] =
            SubSeq(@, 1, IF m < Len(@) THEN m ELSE Len(@))]]

FirstPageErrorRewrapped(page_results) == ErrorEnvelope(page_results["error"])

\* `return page_results` (line 172)
FirstPageError(page_results) == page_results

LaterPageErrorSurfaced(all, page_results) == page_results

\* `break` of line 174 followed by `return all_results` (line 204)
LaterPageError(all, page_results) == all

\* `all_results = {"web": {"results": []}}` (line 152)
EmptyResults == [web |-> [results |-> <<>>]]

\* One iteration of the loop of lines 154-202, with the return that follows
\* when the loop is left (lines 172 and 204). Bodies are well-typed JSON
\* objects whose "results", when present, is a list, so nothing raises inside
\* the iteration and the handler of lines 196-202 is not entered.
FetchPage(resp) ==
    /\ ppc = "loop"
    /\ page < num_pages(max_results)
    /\ LET page_results == fetch_search_results(resp)
           merged == MergePage(all_results, page, page_results)
       IN  /\ fetched' = Append(fetched, page_results)
           /\ IF "error" \in DOMAIN page_results
              THEN /\ pret' = IF page = 0
                               THEN FirstPageError(page_results)
                               ELSE LaterPageError(all_results, page_results)
                   /\ ppc' = "returned"
                   /\ UNCHANGED <<all_results, page>>
              ELSE IF EnoughResults(merged, max_results)
              THEN /\ all_results' = Truncate(merged, max_results)
                   /\ pret' = all_results'
                   /\ ppc' = "returned"
                   /\ UNCHANGED page
              ELSE /\ all_results' = merged
                   /\ IF page + 1 < num_pages(max_results)
                      THEN /\ page' = page + 1
                           /\ UNCHANGED <<ppc, pret>>
                      ELSE /\ pret' = merged
                           /\ ppc' = "returned"
                           /\ UNCHANGED page
    /\ UNCHANGED max_results
    /\ UNCHANGED <<retryVars, mainVars, contentVars>>

----------------------------------------------------------------------------
(* fetch_page_content (agent_tools.py 84-122) and the get_page_content tool *)
(* (agent.py 66-90)                                                         *)

\* "error", the left operand of `in` at agent.py line 83
ErrorKey == <<"e", "r", "r", "o", "r">>

\* Page bodies: every text over BodyChars of at most MaxBodyLen characters.
BodyChars == {"e", "r", "o", "x"}
Texts == UNION {[1..n -> BodyChars] : n \in 0..MaxBodyLen}

\* What the HTTP GET of the page can do: a 200 with a body, another status
\* with a body, or a transport fault.
PageResponses ==
    {[status |-> 200, text |-> t] : t \in Texts}
        \cup {[status |-> st, text |-> t] :
                 st \in {404, 500}, t \in {<<>>, <<"e", "r", "r", "o", "r">>}}
        \cup {[fault |-> "timed out"]}

\* fetch_page_content, lines 95-122: the body on status 200, "" otherwise.
fetch_page_content(resp) ==
    IF "fault" \in DOMAIN resp
    THEN <<>>
    ELSE IF resp.status = 200 THEN resp.text ELSE <<>>

\* `sub in s` for two str values: s has sub as a substring.
StrContains(sub, s) ==
    \E i \in 0..(Len(s) - Len(sub)) : SubSeq(s, i + 1, i + Len(sub)) = sub

\* Lines 82-90 of agent.py. content is a str, so `"error" in content` is a
\* substring test; when it succeeds, building the log message evaluates
\* content['error'], which raises TypeError (str indices must be integers);
\* the handler of line 88 catches it and returns "".
get_page_content_result(c) ==
    IF StrContains(ErrorKey, c) THEN <<>> ELSE c

\* Line 80 of agent.py: the tool awaits fetch_page_content.
FetchContent ==
    /\ cpc = "fetch"
    /\ content' = fetch_page_content(response)
    /\ cpc' = "tool"
    /\ UNCHANGED <<response, tool_ret>>
    /\ UNCHANGED <<retryVars, mainVars, pagVars>>

\* Lines 82-90 of agent.py: the tool's answer to the agent runtime.
ToolReturn ==
    /\ cpc = "tool"
    /\ tool_ret' = get_page_content_result(content)
    /\ cpc' = "returned"
    /\ UNCHANGED <<response, content>>
    /\ UNCHANGED <<retryVars, mainVars, pagVars>>

----------------------------------------------------------------------------
(* The conversation loop, main.py 80-104 *)

\* max_retries=3, the default main relies on (main.py line 18)
DefaultMaxRetries == 3

\* `user_input.lower() in ["exit", "quit", "bye"]` (line 87)
WantsExit(line) == Lower(line) \in ExitWords

\* Lines 84-97: a line is read; an exit keyword ends the loop, any other
\* line enters run_agent_with_retry with the loop's message_history list.
MainInput(line) ==
    /\ mpc = "input"
    /\ lines_read < MaxTurns
    /\ lines_read' = lines_read + 1
    /\ user_input' = line
    /\ IF WantsExit(line)
       THEN /\ printed' = <<"Goodbye!">>
            /\ mpc' = "done"
            /\ UNCHANGED <<max_retries, retries, last_error, rpc, ret, raised,
                           attempts, sleeps, message_history, retry_calls>>
       ELSE /\ mpc' = "call"
            /\ retry_calls' = retry_calls + 1
            /\ max_retries' = DefaultMaxRetries
            /\ rpc' = "start"
            /\ ret' = <<>>
            /\ raised' = None
            /\ attempts' = <<>>
            /\ sleeps' = 0
            /\ UNCHANGED <<retries, last_error, message_history, printed>>
    /\ UNCHANGED turns_ok
    /\ UNCHANGED <<pagVars, contentVars>>

\* Lines 93-100: the call returned; the pair is unpacked and the answer shown.
MainReturn ==
    /\ mpc = "call"
    /\ rpc = "returned"
    /\ message_history' = ret[2]
    /\ printed' = <<"Agent:", ret[1]>>
    /\ turns_ok' = Append(turns_ok, Turn(user_input, ret[1]))
    /\ mpc' = "input"
    /\ rpc' = "idle"
    /\ UNCHANGED <<user_input, max_retries, retries, last_error, ret, raised,
                   attempts, sleeps, lines_read, retry_calls>>
    /\ UNCHANGED <<pagVars, contentVars>>

AfterFailedTurnExit == "done"

\* Position after the handler of lines 102-104: back to the top of the loop.
AfterFailedTurn == "input"

\* Lines 102-104: the call raised; the fault is reported.
MainExcept ==
    /\ mpc = "call"
    /\ rpc = "raised"
    /\ printed' = <<"Error: ", raised>>
    /\ mpc' = AfterFailedTurn
    /\ rpc' = "idle"
    /\ UNCHANGED <<user_input, max_retries, retries, last_error, ret, raised,
                   attempts, sleeps, message_history, lines_read, retry_calls,
                   turns_ok>>
    /\ UNCHANGED <<pagVars, contentVars>>

----------------------------------------------------------------------------
(* Idle values of the parts a specification does not exercise *)

RetryIdle ==
    /\ user_input = <<>> /\ max_retries = 0 /\ retries = 0
    /\ last_error = None /\ rpc = "idle" /\ ret = <<>> /\ raised = None
    /\ attempts = <<>> /\ sleeps = 0 /\ message_history = <<>>

MainIdle ==
    /\ mpc = "idle" /\ lines_read = 0 /\ retry_calls = 0
    /\ turns_ok = <<>> /\ printed = <<>>

PagIdle ==
    /\ max_results = 0 /\ page = 0 /\ all_results = <<>> /\ ppc = "idle"
    /\ pret = <<>> /\ fetched = <<>>

ContentIdle ==
    /\ response = <<>> /\ cpc = "idle" /\ content = <<>> /\ tool_ret = <<>>

----------------------------------------------------------------------------
(* Specification of one call of run_agent_with_retry *)

SampleLines == {<<"h", "i">>, <<"b", "y", "e", "s">>}
SampleHistories == {<<>>, <<Turn(<<"h", "i">>, "answer1")>>}

InitRetry ==
    /\ user_input \in SampleLines
    /\ max_retries \in -1..MaxRetriesBound
    /\ message_history \in {NormaliseHistory(given, h) :
                                given \in BOOLEAN, h \in SampleHistories}
    /\ retries = 0 /\ last_error = None /\ rpc = "start"
    /\ ret = <<>> /\ raised = None /\ attempts = <<>> /\ sleeps = 0
    /\ MainIdle /\ PagIdle /\ ContentIdle

NextRetry == RetryStep

SpecRetry == InitRetry /\ [][NextRetry]_vars

----------------------------------------------------------------------------
(* Specification of one call of search_with_pagination *)

InitPag ==
    /\ max_results \in 1..MaxResultsBound
    /\ page = 0
    /\ all_results = EmptyResults
    /\ ppc = "loop"
    /\ pret = <<>>
    /\ fetched = <<>>
    /\ RetryIdle /\ MainIdle /\ ContentIdle

NextPag == \E resp \in Responses(page) : FetchPage(resp)

SpecPag == InitPag /\ [][NextPag]_vars

----------------------------------------------------------------------------
(* Specification of one call of the get_page_content tool *)

InitContent ==
    /\ response \in PageResponses
    /\ cpc = "fetch"
    /\ content = <<>>
    /\ tool_ret = <<>>
    /\ RetryIdle /\ MainIdle /\ PagIdle

NextContent == FetchContent \/ ToolReturn

SpecContent == InitContent /\ [][NextContent]_vars

----------------------------------------------------------------------------
(* Specification of one conversation session *)

\* Every spelling of w in upper and lower case letters.
UpperChar(c) ==
    IF \E i \in 1..Len(LowerLetters) : LowerLetters[i] = c
    THEN UpperLetters[CHOOSE i \in 1..Len(LowerLetters) : LowerLetters[i] = c]
    ELSE c
CaseVariants(w) ==
    {[i \in 1..Len(w) |-> IF up[i] THEN UpperChar(w[i]) ELSE w[i]] :
        up \in [1..Len(w) -> BOOLEAN]}

OtherLines == {<<>>, <<"h", "i">>, <<"e", "x", "i", "t", " ">>}
InputLines == UNION {CaseVariants(w) : w \in ExitWords} \cup OtherLines

InitMain ==
    /\ mpc = "input"
    /\ lines_read = 0 /\ retry_calls = 0 /\ turns_ok = <<>> /\ printed = <<>>
    /\ RetryIdle /\ PagIdle /\ ContentIdle

NextMain ==
    \/ \E line \in InputLines : MainInput(line)
    \/ RetryStep
    \/ MainReturn
    \/ MainExcept

SpecMain == InitMain /\ [][NextMain]_vars

----------------------------------------------------------------------------
(* Claims about run_agent_with_retry, checked under SpecRetry *)

\* C1: with max_retries >= 1, an attempt that succeeds is the last invocation
\* of the runtime: it is attempt k <= max_retries, every attempt before it
\* failed, the call has returned that attempt's result together with the
\* message history, and the runtime was invoked exactly k times.
C1_FirstSuccessReturns ==
    max_retries >= 1 =>
        \A k \in 1..Len(attempts) :
            attempts[k].ok =>
                /\ k = Len(attempts)
                /\ k <= max_retries
                /\ \A j \in 1..(k - 1) : ~attempts[j].ok
                /\ rpc = "returned"
                /\ ret = <<attempts[k].val, message_history>>

\* C1 witness: two failures, then the third attempt succeeds and is returned.
C1_Witness ==
    /\ rpc = "returned"
    /\ Len(attempts) = 3
    /\ ~attempts[1].ok /\ ~attempts[2].ok /\ attempts[3].ok
    /\ ret[1] = attempts[3].val

\* C2: with max_retries >= 1, the call raises only after exactly max_retries
\* invocations that all failed, it has returned nothing, and the value raised
\* is the fault of the last attempt; the runtime is never invoked more than
\* max_retries times and a call whose attempts all failed has not returned.
C2_ExhaustedRaisesLast ==
    max_retries >= 1 =>
        /\ Len(attempts) <= max_retries
        /\ (\A i \in 1..Len(attempts) : ~attempts[i].ok) => rpc # "returned" /\ ret = <<>>
        /\ (Len(attempts) = max_retries /\ ~attempts[max_retries].ok)
              => /\ rpc \in {"loop", "raised"}
                 /\ ~ENABLED (\E e \in Faults : AttemptFail(e))
                 /\ ~ENABLED (\E r \in Results, b \in BOOLEAN : AttemptOk(r, b))
                 /\ last_error = attempts[max_retries].val
        /\ rpc = "raised" =>
              /\ Len(attempts) = max_retries
              /\ \A i \in 1..Len(attempts) : ~attempts[i].ok
              /\ raised = attempts[max_retries].val
              /\ ret = <<>>

\* C2 witness: three failures with max_retries = 3, the last fault differing
\* from the first, and the call has raised.
C2_Witness ==
    /\ rpc = "raised"
    /\ max_retries = 3
    /\ Len(attempts) = 3
    /\ attempts[1].val # attempts[3].val
    /\ raised = attempts[3].val

\* C11: with max_retries <= 0 the runtime is never invoked and no delay is
\* taken; no fault is ever captured, the call never returns a result, the only
\* step left to the loop is the raise of line 54, and what that raise gives
\* the caller is the TypeError of `raise None`, not a fault of the runtime.
C11_NoAttemptWithoutRetries ==
    max_retries <= 0 =>
        /\ attempts = <<>>
        /\ sleeps = 0
        /\ retries = 0
        /\ last_error = None
        /\ rpc # "returned"
        /\ ret = <<>>
        /\ rpc = "loop" =>
              /\ ENABLED RetryExhausted
              /\ ~ENABLED (\E e \in Faults : AttemptFail(e))
              /\ ~ENABLED (\E r \in Results, b \in BOOLEAN : AttemptOk(r, b))
        /\ rpc = "raised" =>
              /\ raised = RaiseNoneTypeError
              /\ raised \notin Faults

\* C11 witness: a call with max_retries = 0 has ended by raising, with no
\* invocation of the runtime and no delay.
C11_Witness ==
    /\ max_retries = 0
    /\ rpc = "raised"
    /\ attempts = <<>>
    /\ sleeps = 0
    /\ raised = RaiseNoneTypeError

----------------------------------------------------------------------------
(* Claims about search_with_pagination, checked under SpecPag *)

\* The result items a fetched page carries.
ResultsOf(page_results) ==
    IF HasWebResults(page_results) THEN page_results["web"]["results"] ELSE <<>>

RECURSIVE ConcatResults(_, _)
\* In-order concatenation of the result items of the first n fetched pages.
ConcatResults(log, n) ==
    IF n = 0 THEN <<>> ELSE ConcatResults(log, n - 1) \o ResultsOf(log[n])

PageFailed(page_results) == "error" \in DOMAIN page_results

\* C3: when page 0 succeeded the returned envelope holds at most max_results
\* items; as soon as the items of the successful pages fetched so far number
\* max_results or more, the call has returned exactly max_results items, and
\* no page was fetched after that point.
C3_AtMostMaxResults ==
    /\ (ppc = "returned" /\ ~PageFailed(fetched[1]))
          => Len(pret["web"]["results"]) <= max_results
    /\ Len(all_results["web"]["results"]) <= max_results
    /\ \A n \in 1..Len(fetched) :
          (/\ \A j \in 1..n : ~PageFailed(fetched[j])
           /\ Len(ConcatResults(fetched, n)) >= max_results)
             => /\ n = Len(fetched)
                /\ ppc = "returned"
                /\ pret["web"]["results"]
                      = SubSeq(ConcatResults(fetched, n), 1, max_results)

\* C3 witness: two successful pages bring more than max_results items, with
\* max_results above one page, and exactly max_results are returned.
C3_Witness ==
    /\ ppc = "returned"
    /\ Len(fetched) = 2
    /\ ~PageFailed(fetched[2])
    /\ Len(ConcatResults(fetched, 2)) > max_results
    /\ Len(pret["web"]["results"]) = max_results

\* C4: when page 0 succeeded, the returned envelope carries every top-level
\* key of page 0 other than "web", and every key of page 0's web object other
\* than "results", with page 0's value, and carries no other metadata key.
C4_MetadataFromPageZero ==
    (ppc = "returned" /\ ~PageFailed(fetched[1])) =>
        LET p0 == fetched[1]
            webKeys == IF "web" \in DOMAIN p0
                       THEN DOMAIN p0["web"] \ {"results"} ELSE {}
        IN  /\ \A k \in DOMAIN p0 \ {"web"} :
                  k \in DOMAIN pret /\ pret[k] = p0[k]
            /\ \A k \in webKeys :
                  k \in DOMAIN pret["web"] /\ pret["web"][k] = p0["web"][k]
            /\ DOMAIN pret \ {"web"} \subseteq DOMAIN p0
            /\ DOMAIN pret["web"] \ {"results"} \subseteq webKeys

\* C5: when the answer for page 0 carries an error, the call has returned that
\* very envelope and page 0 is the only page fetched.
C5_FirstPageErrorPropagated ==
    (Len(fetched) >= 1 /\ PageFailed(fetched[1])) =>
        /\ ppc = "returned"
        /\ pret = fetched[1]
        /\ Len(fetched) = 1

\* C5 witness: page 0 of a multi-page request failed and was returned.
C5_Witness ==
    /\ ppc = "returned"
    /\ num_pages(max_results) > 1
    /\ Len(fetched) = 1
    /\ PageFailed(fetched[1])
    /\ pret = fetched[1]

----------------------------------------------------------------------------
(* Claim about the get_page_content tool, checked under SpecContent *)

\* C7: the tool returns exactly what the Page Fetcher returned: the body of
\* the page whenever the fetch had status 200, and the empty string when the
\* fetch failed.
C7_ToolReturnsFetcherValue ==
    cpc = "returned" =>
        /\ tool_ret = content
        /\ ("status" \in DOMAIN response /\ response.status = 200)
              => tool_ret = response.text

----------------------------------------------------------------------------
(* Claims about the conversation loop, checked under SpecMain *)

\* Two characters that are the same letter in either case.
SameLetter(a, b) == a = b \/ UpperChar(a) = b \/ a = UpperChar(b)

\* The line spells "exit", "quit" or "bye" in some mix of letter cases.
IsExitKeyword(line) ==
    \E w \in ExitWords :
        /\ Len(line) = Len(w)
        /\ \A i \in 1..Len(w) : SameLetter(line[i], w[i])

\* C8: reading an exit keyword, in any letter case, ends the loop without
\* entering run_agent_with_retry or invoking the runtime; reading any other
\* line enters run_agent_with_retry once with that line, and nothing but the
\* reading of a line enters it; an ended loop stays ended.
C8_ExitKeywordEndsLoop ==
    [][/\ (lines_read' = lines_read + 1 /\ IsExitKeyword(user_input'))
             => /\ mpc' = "done"
                /\ retry_calls' = retry_calls
                /\ rpc' = "idle"
                /\ attempts' = attempts
       /\ (lines_read' = lines_read + 1 /\ ~IsExitKeyword(user_input'))
             => /\ mpc' = "call"
                /\ retry_calls' = retry_calls + 1
                /\ rpc' = "start"
       /\ (retry_calls' # retry_calls) => (lines_read' = lines_read + 1)
       /\ (rpc = "idle" /\ rpc' # "idle") => (retry_calls' = retry_calls + 1)
       /\ (mpc = "done") => (mpc' = "done" /\ attempts' = attempts)
      ]_vars

\* C8 witness: after two earlier turns the line "ExIt" ended the loop, and
\* run_agent_with_retry was entered twice only.
C8_Witness ==
    /\ mpc = "done"
    /\ user_input = <<"E", "x", "I", "t">>
    /\ lines_read = 3
    /\ retry_calls = 2
    /\ Len(turns_ok) = 1

\* C9: when the retry loop ends by raising, the conversation loop reports the
\* fault and goes back to reading input, its history untouched; the loop ends
\* only when an exit keyword has been read.
C9_FailedTurnKeepsLoop ==
    [][/\ (mpc = "call" /\ rpc = "raised" /\ mpc' # mpc)
             => /\ mpc' = "input"
                /\ printed' = <<"Error: ", raised>>
                /\ message_history' = message_history
       /\ (mpc' = "done") => IsExitKeyword(user_input')
      ]_vars

\* C9 witness: two turns failed, each was reported and followed by another
\* read, and the third line ended the loop.
C9_Witness ==
    /\ mpc = "done"
    /\ lines_read = 3
    /\ retry_calls = 2
    /\ turns_ok = <<>>
    /\ rpc = "idle"
    /\ raised \in Faults

\* C10: between turns the history held by the loop contains every successful
\* turn of the session so far, in order.
C10_HistoryHoldsSuccessfulTurns ==
    mpc \in {"input", "done"} =>
        /\ Len(message_history) >= Len(turns_ok)
        /\ \A i \in 1..Len(turns_ok) : message_history[i] = turns_ok[i]

====
